---- MODULE Spec2Model ----
(***************************************************************************)
(* The gke-mcp server: the release-notes extraction of                     *)
(* pkg/tools/gkereleasenotes (extractReleaseNotesRelevantForUpgrade,       *)
(* compareVersions, parseGkeVersion and the two package-level regular      *)
(* expressions), keepOnlyChanges of the changelog tool, the installers of  *)
(* pkg/install and LogQueryRequest.validate of the logging tool.           *)
(*                                                                         *)
(* A release-notes document is a sequence of tokens.  "N" is a line break, *)
(* "S" a blank, "T" one character that is neither white space, a letter    *)
(* nor a digit, "H" a date expression such as "Nov 14, 2025" (what the     *)
(* pattern [A-Za-z]+\s+\d+,\s+\d+ matches) and "M" a match of              *)
(* gkeVersionRegexp.  Offsets are byte offsets: every token has the length *)
(* of its text.                                                            *)
(***************************************************************************)
EXTENDS Integers, Sequences, FiniteSets, TLC

\* Longest document of the entry family, in blocks (date lines and entries).
MaxEntries == 5
\* Longest document of the free-text family, in tokens.
MaxTokens == 4

-----------------------------------------------------------------------------
(* Version strings.  A string is kept as strings.Split sees it: the parts  *)
(* between "-gke." separators, each part being its fields between "."      *)
(* separators.  A field is an optionally signed decimal number that fits   *)
(* an int ("int"), a digit string that overflows an int ("big"), or text   *)
(* that is not a number ("alpha").                                         *)

Num(n) == [kind |-> "int", val |-> n]
Big == [kind |-> "big", val |-> 0]
Alpha == [kind |-> "alpha", val |-> 0]

GkeVersion(a, b, c, d) == << <<Num(a), Num(b), Num(c)>>, <<Num(d)>> >>

\* "1.2.3-gke.4" < "1.2.9-gke.0" < "1.3.1-gke.2" < "1.3.1-gke.5" < "1.3.1-gke.7"
VOld == GkeVersion(1, 2, 3, 4)
VBelowMid == GkeVersion(1, 2, 9, 0)
VMid == GkeVersion(1, 3, 1, 2)
VAboveMid == GkeVersion(1, 3, 1, 5)
VNew == GkeVersion(1, 3, 1, 7)
\* "99999999999999999999.2.3-gke.4": matches gkeVersionRegexp, Atoi overflows
VOverflow == << <<Big, Num(2), Num(3)>>, <<Num(4)>> >>
\* "1.34": no "-gke." separator
VNoTag == << <<Num(1), Num(34)>> >>

\* versions that occur as markers in the documents
MarkerVersions == {VOld, VMid, VNew, VOverflow}
\* caller-supplied sourceVersion / targetVersion
VersionArgs == {VBelowMid, VMid, VAboveMid, VNoTag}

\* strconv.Atoi
Atoi(f) ==
    IF f.kind = "int" THEN [err |-> FALSE, val |-> f.val]
    ELSE [err |-> TRUE, val |-> 0]

ParseError == [err |-> TRUE, v |-> <<0, 0, 0, 0>>]

\* parseGkeVersion that takes the text before the first "-gke." and the text
\* after the last one, however many separators there are
parseGkeVersionAnyParts(version) ==
    IF Len(version) < 2 THEN ParseError
    ELSE LET k8sParts == version[1]
             gkeVersionPart == version[Len(version)]
         IN IF Len(k8sParts) # 3 THEN ParseError
            ELSE LET major == Atoi(k8sParts[1])
                     minor == Atoi(k8sParts[2])
                     patch == Atoi(k8sParts[3])
                 IN IF major.err \/ minor.err \/ patch.err THEN ParseError
                    ELSE IF Len(gkeVersionPart) # 1 THEN ParseError
                    ELSE LET gkePatch == Atoi(gkeVersionPart[1])
                         IN IF gkePatch.err THEN ParseError
                            ELSE [err |-> FALSE,
                                  v |-> <<major.val, minor.val, patch.val, gkePatch.val>>]

parseGkeVersion(version) ==
    IF Len(version) # 2 THEN ParseError
    ELSE LET k8sParts == version[1]
             gkeVersionPart == version[2]
         IN IF Len(k8sParts) # 3 THEN ParseError
            ELSE LET major == Atoi(k8sParts[1])
                     minor == Atoi(k8sParts[2])
                     patch == Atoi(k8sParts[3])
                 IN IF major.err \/ minor.err \/ patch.err THEN ParseError
                    \* Atoi of the whole text after "-gke.": a "." in it fails
                    ELSE IF Len(gkeVersionPart) # 1 THEN ParseError
                    ELSE LET gkePatch == Atoi(gkeVersionPart[1])
                         IN IF gkePatch.err THEN ParseError
                            ELSE [err |-> FALSE,
                                  v |-> <<major.val, minor.val, patch.val, gkePatch.val>>]

\* a before b, field by field
TupleLessCode(a, b) ==
    \/ a[1] < b[1]
    \/ a[1] = b[1] /\ a[2] < b[2]
    \/ a[1] = b[1] /\ a[2] = b[2] /\ a[3] < b[3]
    \/ a[1] = b[1] /\ a[2] = b[2] /\ a[3] = b[3] /\ a[4] < b[4]

\* compareVersions that leaves the vendor patch out of the comparison
compareVersionsNoVendorPatch(a, b) ==
    LET pa == parseGkeVersion(a)
        pb == parseGkeVersion(b)
    IN IF pa.err \/ pb.err THEN [err |-> TRUE, cmp |-> 0]
       ELSE IF TupleLessCode(<<pa.v[1], pa.v[2], pa.v[3], 0>>, <<pb.v[1], pb.v[2], pb.v[3], 0>>)
            THEN [err |-> FALSE, cmp |-> 1]
       ELSE IF TupleLessCode(<<pb.v[1], pb.v[2], pb.v[3], 0>>, <<pa.v[1], pa.v[2], pa.v[3], 0>>)
            THEN [err |-> FALSE, cmp |-> -1]
       ELSE [err |-> FALSE, cmp |-> 0]

\* compareVersions that reports a version it cannot parse as equal
compareVersionsNoError(a, b) ==
    LET pa == parseGkeVersion(a)
        pb == parseGkeVersion(b)
    IN IF pa.err \/ pb.err THEN [err |-> FALSE, cmp |-> 0]
       ELSE IF TupleLessCode(pa.v, pb.v) THEN [err |-> FALSE, cmp |-> 1]
       ELSE IF TupleLessCode(pb.v, pa.v) THEN [err |-> FALSE, cmp |-> -1]
       ELSE [err |-> FALSE, cmp |-> 0]

\* 1 if b > a, 0 if b == a, -1 if b < a; err when either does not parse
compareVersions(a, b) ==
    LET pa == parseGkeVersion(a)
        pb == parseGkeVersion(b)
    IN IF pa.err THEN [err |-> TRUE, cmp |-> 0]
       ELSE IF pb.err THEN [err |-> TRUE, cmp |-> 0]
       ELSE IF pb.v[1] > pa.v[1] THEN [err |-> FALSE, cmp |-> 1]
       ELSE IF pb.v[1] < pa.v[1] THEN [err |-> FALSE, cmp |-> -1]
       ELSE IF pb.v[2] > pa.v[2] THEN [err |-> FALSE, cmp |-> 1]
       ELSE IF pb.v[2] < pa.v[2] THEN [err |-> FALSE, cmp |-> -1]
       ELSE IF pb.v[3] > pa.v[3] THEN [err |-> FALSE, cmp |-> 1]
       ELSE IF pb.v[3] < pa.v[3] THEN [err |-> FALSE, cmp |-> -1]
       ELSE IF pb.v[4] > pa.v[4] THEN [err |-> FALSE, cmp |-> 1]
       ELSE IF pb.v[4] < pa.v[4] THEN [err |-> FALSE, cmp |-> -1]
       ELSE [err |-> FALSE, cmp |-> 0]

-----------------------------------------------------------------------------
(* Documents *)

Tok(k) == [kind |-> k, text |-> <<>>]
Marker(v) == [kind |-> "M", text |-> v]

FieldLen(f) == IF f.kind = "big" THEN 20 ELSE 1

\* length of the text of a token, in bytes
TokLen(tok) ==
    CASE tok.kind = "H" -> 12
      [] tok.kind = "M" -> FieldLen(tok.text[1][1]) + 1 + FieldLen(tok.text[1][2]) + 1
                           + FieldLen(tok.text[1][3]) + 5 + FieldLen(tok.text[2][1])
      [] OTHER -> 1

\* offset of the first byte of token i of s (of the end of s for i = Len(s)+1)
RECURSIVE Off(_, _)
Off(s, i) == IF i <= 1 THEN 0 ELSE Off(s, i - 1) + TokLen(s[i - 1])

\* len(s)
TextLen(s) == Off(s, Len(s) + 1)

RECURSIVE Flatten(_)
Flatten(blocks) == IF blocks = <<>> THEN <<>> ELSE Head(blocks) \o Flatten(Tail(blocks))

SeqsUpTo(S, n) == UNION {[1..k -> S] : k \in 0..n}

\* a stand-alone date line, and a list entry that names a version
DateLine == <<Tok("N"), Tok("H"), Tok("N")>>
Entry(v) == <<Tok("S"), Marker(v), Tok("T")>>
EntryBlocks == {DateLine} \cup {Entry(v) : v \in MarkerVersions}
EntryDocuments == {Flatten(bs) : bs \in SeqsUpTo(EntryBlocks, MaxEntries)}

\* gkeVersionRegexp is greedy: the text next to a match is never a digit, so
\* no marker follows a marker or a date expression directly
WellFormedText(s) ==
    \A i \in 2..Len(s) : s[i].kind = "M" => s[i - 1].kind \notin {"M", "H"}
TextTokens == {Tok("N"), Tok("S"), Tok("T"), Tok("H"), Marker(VOld), Marker(VMid)}
TextDocuments == {s \in SeqsUpTo(TextTokens, MaxTokens) : WellFormedText(s)}

Documents == EntryDocuments \cup TextDocuments

-----------------------------------------------------------------------------
(* The two package-level patterns *)

\* gkeVersionRegexp.FindAllStringIndex(s, -1): <<start, end>> of every marker
\* (token i of s starts at offset off)
RECURSIVE MarkerLocationsFrom(_, _, _)
MarkerLocationsFrom(s, i, off) ==
    IF i > Len(s) THEN <<>>
    ELSE IF s[i].kind = "M"
         THEN << <<off, off + TokLen(s[i])>> >>
              \o MarkerLocationsFrom(s, i + 1, off + TokLen(s[i]))
         ELSE MarkerLocationsFrom(s, i + 1, off + TokLen(s[i]))

FindAllVersions(s) == MarkerLocationsFrom(s, 1, 0)

\* \s
IsSpace(tok) == tok.kind \in {"N", "S"}

RECURSIVE SkipSpace(_, _)
SkipSpace(s, i) == IF i <= Len(s) /\ IsSpace(s[i]) THEN SkipSpace(s, i + 1) ELSE i

LastNewline(s, lo, hi) ==
    LET es == {e \in lo..hi : s[e].kind = "N"}
    IN IF es = {} THEN 0 ELSE CHOOSE e \in es : \A x \in es : x <= e

\* (^|\n)\s*[A-Za-z]+\s+\d+,\s+\d+\s*(\n|$) tried at the position before
\* token p of s: the index of the last token of the match, 0 when there is
\* none.  ^ and $ are the two ends of s (no multi-line flag); the greedy
\* \s* after the date gives back white space until a line break follows.
HeadingMatchEnd(s, p) ==
    IF p > Len(s) \/ ~(p = 1 \/ s[p].kind = "N") THEN 0
    ELSE LET q == IF p = 1 THEN SkipSpace(s, 1) ELSE SkipSpace(s, p + 1)
         IN IF q > Len(s) \/ s[q].kind # "H" THEN 0
            ELSE LET r == SkipSpace(s, q + 1)
                 IN IF r > Len(s) THEN Len(s) ELSE LastNewline(s, q + 1, r - 1)

\* releaseDateHeadingRegexp.FindAllStringIndex(s, -1): leftmost match first,
\* the search resumes where the previous match ended
RECURSIVE HeadingLocationsFrom(_, _)
HeadingLocationsFrom(s, pos) ==
    IF pos > Len(s) THEN <<>>
    ELSE LET e == HeadingMatchEnd(s, pos)
         IN IF e = 0 THEN HeadingLocationsFrom(s, pos + 1)
            ELSE << <<Off(s, pos), Off(s, e + 1)>> >> \o HeadingLocationsFrom(s, e + 1)

FindAllHeadings(s) == HeadingLocationsFrom(s, 1)

-----------------------------------------------------------------------------
(* extractReleaseNotesRelevantForUpgrade *)

\* a nil []int
Nil == <<>>

\* index of the token that starts at offset off (Len(s)+1 for the end of s)
RECURSIVE IndexAtFrom(_, _, _, _)
IndexAtFrom(s, i, at, off) ==
    IF at >= off \/ i > Len(s) THEN i ELSE IndexAtFrom(s, i + 1, at + TokLen(s[i]), off)
IndexAt(s, off) == IndexAtFrom(s, 1, 0, off)

\* fullReleaseNotes[loc[0]:loc[1]] for a marker location
VersionText(doc, loc) == doc[IndexAt(doc, loc[1])].text

\* LeftBorderScan without the two break statements: the last assignment stays
RECURSIVE LeftBorderScanNoBreak(_, _, _, _)
LeftBorderScanNoBreak(doc, versionLocations, targetVersion, locIndex) ==
    IF locIndex > Len(versionLocations) THEN Nil
    ELSE LET loc == versionLocations[locIndex]
             c == compareVersions(VersionText(doc, loc), targetVersion)
             later == LeftBorderScanNoBreak(doc, versionLocations, targetVersion, locIndex + 1)
         IN IF later # Nil THEN later
            ELSE IF c.err THEN Nil
            ELSE IF c.cmp = 0 THEN loc
            ELSE IF c.cmp > 0
                 THEN IF locIndex = 1 THEN loc ELSE versionLocations[locIndex - 1]
            ELSE Nil

\* LeftBorderScan without the step to the previous list entry
RECURSIVE LeftBorderScanOwnEntry(_, _, _, _)
LeftBorderScanOwnEntry(doc, versionLocations, targetVersion, locIndex) ==
    IF locIndex > Len(versionLocations) THEN Nil
    ELSE LET loc == versionLocations[locIndex]
             c == compareVersions(VersionText(doc, loc), targetVersion)
         IN IF c.err
            THEN LeftBorderScanOwnEntry(doc, versionLocations, targetVersion, locIndex + 1)
            ELSE IF c.cmp >= 0 THEN loc
            ELSE LeftBorderScanOwnEntry(doc, versionLocations, targetVersion, locIndex + 1)

\* LeftBorderScan that keeps no border when it stops at the first marker
RECURSIVE LeftBorderScanNoFirstCase(_, _, _, _)
LeftBorderScanNoFirstCase(doc, versionLocations, targetVersion, locIndex) ==
    IF locIndex > Len(versionLocations) THEN Nil
    ELSE LET loc == versionLocations[locIndex]
             c == compareVersions(VersionText(doc, loc), targetVersion)
         IN IF c.err
            THEN LeftBorderScanNoFirstCase(doc, versionLocations, targetVersion, locIndex + 1)
            ELSE IF c.cmp = 0 THEN loc
            ELSE IF c.cmp > 0
                 THEN IF locIndex = 1 THEN Nil ELSE versionLocations[locIndex - 1]
            ELSE LeftBorderScanNoFirstCase(doc, versionLocations, targetVersion, locIndex + 1)

\* LeftBorderScan that steps to the entry after the one it stops at
RECURSIVE LeftBorderScanNextEntry(_, _, _, _)
LeftBorderScanNextEntry(doc, versionLocations, targetVersion, locIndex) ==
    IF locIndex > Len(versionLocations) THEN Nil
    ELSE LET loc == versionLocations[locIndex]
             c == compareVersions(VersionText(doc, loc), targetVersion)
         IN IF c.err
            THEN LeftBorderScanNextEntry(doc, versionLocations, targetVersion, locIndex + 1)
            ELSE IF c.cmp = 0 THEN loc
            ELSE IF c.cmp > 0
                 THEN IF locIndex = Len(versionLocations) THEN loc
                      ELSE versionLocations[locIndex + 1]
            ELSE LeftBorderScanNextEntry(doc, versionLocations, targetVersion, locIndex + 1)

\* first loop: the first version that is <= targetVersion; one version to the
\* left (if not first) is the left border
RECURSIVE LeftBorderScan(_, _, _, _)
LeftBorderScan(doc, versionLocations, targetVersion, locIndex) ==
    IF locIndex > Len(versionLocations) THEN Nil
    ELSE LET loc == versionLocations[locIndex]
             c == compareVersions(VersionText(doc, loc), targetVersion)
         IN IF c.err THEN LeftBorderScan(doc, versionLocations, targetVersion, locIndex + 1)
            ELSE IF c.cmp = 0 THEN loc
            ELSE IF c.cmp > 0
                 THEN IF locIndex = 1 THEN loc ELSE versionLocations[locIndex - 1]
            ELSE LeftBorderScan(doc, versionLocations, targetVersion, locIndex + 1)

\* RightBorderScan with the sign of the comparison taken the wrong way round
RECURSIVE RightBorderScanFlipped(_, _, _, _)
RightBorderScanFlipped(doc, versionLocations, sourceVersion, iFromEnd) ==
    IF iFromEnd < 1 THEN Nil
    ELSE LET loc == versionLocations[iFromEnd]
             c == compareVersions(VersionText(doc, loc), sourceVersion)
         IN IF c.err
            THEN RightBorderScanFlipped(doc, versionLocations, sourceVersion, iFromEnd - 1)
            ELSE IF c.cmp = 0 THEN loc
            ELSE IF c.cmp > 0
                 THEN IF iFromEnd = Len(versionLocations) THEN loc
                      ELSE versionLocations[iFromEnd + 1]
            ELSE RightBorderScanFlipped(doc, versionLocations, sourceVersion, iFromEnd - 1)

\* RightBorderScan that keeps no border when it stops at the last marker
RECURSIVE RightBorderScanNoLastCase(_, _, _, _)
RightBorderScanNoLastCase(doc, versionLocations, sourceVersion, iFromEnd) ==
    IF iFromEnd < 1 THEN Nil
    ELSE LET loc == versionLocations[iFromEnd]
             c == compareVersions(VersionText(doc, loc), sourceVersion)
         IN IF c.err
            THEN RightBorderScanNoLastCase(doc, versionLocations, sourceVersion, iFromEnd - 1)
            ELSE IF c.cmp = 0 THEN loc
            ELSE IF c.cmp < 0
                 THEN IF iFromEnd = Len(versionLocations) THEN Nil
                      ELSE versionLocations[iFromEnd + 1]
            ELSE RightBorderScanNoLastCase(doc, versionLocations, sourceVersion, iFromEnd - 1)

\* RightBorderScan without the two break statements: the scan goes on to the
\* start of the list and its last assignment stays
RECURSIVE RightBorderScanNoBreak(_, _, _, _)
RightBorderScanNoBreak(doc, versionLocations, sourceVersion, iFromEnd) ==
    IF iFromEnd < 1 THEN Nil
    ELSE LET loc == versionLocations[iFromEnd]
             c == compareVersions(VersionText(doc, loc), sourceVersion)
             later == RightBorderScanNoBreak(doc, versionLocations, sourceVersion,
                                             iFromEnd - 1)
         IN IF later # Nil THEN later
            ELSE IF c.err THEN Nil
            ELSE IF c.cmp = 0 THEN loc
            ELSE IF c.cmp < 0
                 THEN IF iFromEnd = Len(versionLocations) THEN loc
                      ELSE versionLocations[iFromEnd + 1]
            ELSE Nil

\* second loop: the first version that is >= sourceVersion searching from the
\* end; one version to the right (if not last) is the right border
RECURSIVE RightBorderScan(_, _, _, _)
RightBorderScan(doc, versionLocations, sourceVersion, iFromEnd) ==
    IF iFromEnd < 1 THEN Nil
    ELSE LET loc == versionLocations[iFromEnd]
             c == compareVersions(VersionText(doc, loc), sourceVersion)
         IN IF c.err THEN RightBorderScan(doc, versionLocations, sourceVersion, iFromEnd - 1)
            ELSE IF c.cmp = 0 THEN loc
            ELSE IF c.cmp < 0
                 THEN IF iFromEnd = Len(versionLocations) THEN loc
                      ELSE versionLocations[iFromEnd + 1]
            ELSE RightBorderScan(doc, versionLocations, sourceVersion, iFromEnd - 1)

\* LeftBorder that keeps the default whatever the scan found
LeftBorderAtDocumentStart(doc, targetVersion) == 0

LeftBorder(doc, targetVersion) ==
    LET versionLocations == FindAllVersions(doc)
        leftBorderVersionLocation == LeftBorderScan(doc, versionLocations, targetVersion, 1)
    IN IF leftBorderVersionLocation # Nil THEN leftBorderVersionLocation[1] ELSE 0

\* RightBorder taking the start of the marker instead of its end
RightBorderAtStart(doc, sourceVersion) ==
    LET versionLocations == FindAllVersions(doc)
        rightBorderVersionLocation ==
            RightBorderScan(doc, versionLocations, sourceVersion, Len(versionLocations))
    IN IF rightBorderVersionLocation # Nil THEN rightBorderVersionLocation[1] ELSE TextLen(doc)

RightBorder(doc, sourceVersion) ==
    LET versionLocations == FindAllVersions(doc)
        rightBorderVersionLocation ==
            RightBorderScan(doc, versionLocations, sourceVersion, Len(versionLocations))
    IN IF rightBorderVersionLocation # Nil THEN rightBorderVersionLocation[2] ELSE TextLen(doc)

\* LeftExpand taking the first heading of leftCut instead of the last
LeftExpandFirstHeading(doc, leftBorder) ==
    LET leftCut == SubSeq(doc, 1, IndexAt(doc, leftBorder) - 1)
        dateReleaseHeadingLocations == FindAllHeadings(leftCut)
    IN IF Len(leftCut) = 0 THEN leftBorder
       ELSE IF dateReleaseHeadingLocations = <<>> THEN 0
       ELSE dateReleaseHeadingLocations[1][1]

\* start offset of leftAppend + reducedReleaseNotes
LeftExpand(doc, leftBorder) ==
    LET leftCut == SubSeq(doc, 1, IndexAt(doc, leftBorder) - 1)
        dateReleaseHeadingLocations == FindAllHeadings(leftCut)
    IN IF Len(leftCut) = 0 THEN leftBorder
       ELSE IF dateReleaseHeadingLocations = <<>> THEN 0
       ELSE dateReleaseHeadingLocations[Len(dateReleaseHeadingLocations)][1]

\* RightExpand that takes rightCutAppendEnd as it is, negative too: the text
\* then ends before rightBorder
RightExpandNoClamp(doc, rightBorder) ==
    LET rightCut == SubSeq(doc, IndexAt(doc, rightBorder), Len(doc))
        dateReleaseHeadingLocations == FindAllHeadings(rightCut)
    IN IF Len(rightCut) = 0 THEN rightBorder
       ELSE IF dateReleaseHeadingLocations = <<>> THEN TextLen(doc)
       ELSE rightBorder + dateReleaseHeadingLocations[1][1] - 1

\* end offset of reducedReleaseNotes + rightAppend
RightExpand(doc, rightBorder) ==
    LET rightCut == SubSeq(doc, IndexAt(doc, rightBorder), Len(doc))
        dateReleaseHeadingLocations == FindAllHeadings(rightCut)
    IN IF Len(rightCut) = 0 THEN rightBorder
       ELSE IF dateReleaseHeadingLocations = <<>> THEN TextLen(doc)
       ELSE LET rightCutAppendEnd == dateReleaseHeadingLocations[1][1] - 1
            IN rightBorder + (IF rightCutAppendEnd < 0 THEN 0 ELSE rightCutAppendEnd)

NoOutcome ==
    [status |-> "none", err |-> FALSE, leftBorder |-> 0, rightBorder |-> 0, from |-> 0, to |-> 0]

\* The value the call produces.  leftAppend, reducedReleaseNotes and
\* rightAppend are adjoining pieces of the document, so the returned string is
\* fullReleaseNotes[from:to].  fullReleaseNotes[leftBorder:rightBorder] panics
\* (slice bounds out of range) when leftBorder > rightBorder.
Extract(doc, sourceVersion, targetVersion) ==
    LET leftBorder == LeftBorder(doc, targetVersion)
        rightBorder == RightBorder(doc, sourceVersion)
    IN IF leftBorder > rightBorder
       THEN [status |-> "panic", err |-> FALSE, leftBorder |-> leftBorder,
             rightBorder |-> rightBorder, from |-> 0, to |-> 0]
       ELSE [status |-> "returned", err |-> FALSE, leftBorder |-> leftBorder,
             rightBorder |-> rightBorder,
             from |-> LeftExpand(doc, leftBorder), to |-> RightExpand(doc, rightBorder)]

\* What a call writes besides its return value: the left scan prints one
\* line on standard output (fmt.Printf) for every marker it compares, and
\* compareVersions writes one line to the log (log.Printf) for every
\* comparison in which a version does not parse.  The log is counted in lines.
NoWrites == [stdout |-> <<>>, log |-> 0]

\* fmt.Printf("cmp%d + %v vs %v\n", cmp, version, targetVersion)
CmpLine(cmp, version, target) == [cmp |-> cmp, version |-> version, target |-> target]

RECURSIVE LeftScanWrites(_, _, _, _)
LeftScanWrites(doc, versionLocations, target, locIndex) ==
    IF locIndex > Len(versionLocations) THEN NoWrites
    ELSE LET version == VersionText(doc, versionLocations[locIndex])
             c == compareVersions(version, target)
             rest == LeftScanWrites(doc, versionLocations, target, locIndex + 1)
         IN IF c.err THEN [stdout |-> rest.stdout, log |-> rest.log + 1]
            ELSE IF c.cmp >= 0
                 THEN [stdout |-> <<CmpLine(c.cmp, version, target)>>, log |-> 0]
            ELSE [stdout |-> <<CmpLine(c.cmp, version, target)>> \o rest.stdout,
                  log |-> rest.log]

RECURSIVE RightScanWrites(_, _, _, _)
RightScanWrites(doc, versionLocations, source, iFromEnd) ==
    IF iFromEnd < 1 THEN NoWrites
    ELSE LET c == compareVersions(VersionText(doc, versionLocations[iFromEnd]), source)
             rest == RightScanWrites(doc, versionLocations, source, iFromEnd - 1)
         IN IF c.err THEN [stdout |-> <<>>, log |-> rest.log + 1]
            ELSE IF c.cmp <= 0 THEN NoWrites
            ELSE rest

Writes(doc, source, target) ==
    LET versionLocations == FindAllVersions(doc)
        left == LeftScanWrites(doc, versionLocations, target, 1)
        right == RightScanWrites(doc, versionLocations, source, Len(versionLocations))
    IN [stdout |-> left.stdout, log |-> left.log + right.log]

-----------------------------------------------------------------------------
(* The state.  Every operation of the package is exercised by a state      *)
(* machine of its own; the variables of the machines that a specification  *)
(* does not exercise stay at their idle values.                            *)
VARIABLES
    fullReleaseNotes,   \* the three arguments of the extraction call
    sourceVersion,
    targetVersion,
    outcome,            \* what the call produced, NoOutcome before it ran
    compareArgs,        \* three version strings handed to compareVersions
    compareResults,     \* what compareVersions returned for each pair of them
    gkeVersionRegexp,   \* the two package-level patterns
    releaseDateHeadingRegexp,
    calls,              \* the extraction calls made so far, with what they returned
    stdout,             \* lines written to standard output so far
    logged,             \* lines written to the log so far
    goArgs,             \* per goroutine: the arguments of its extraction call
    goPc,               \* per goroutine: where its call stands
    goLocals,           \* per goroutine: the local variables of its call
    changelog,          \* the argument of keepOnlyChanges, as its lines
    changes,            \* the lines keepOnlyChanges wrote, NotRun before it ran
    existingConfig,     \* the JSON config file as it was before any install
    cursorConfig,       \* <installDir>/.cursor/mcp.json
    claudeConfig,       \* Claude Desktop's claude_desktop_config.json
    installs,           \* per installer: how often it ran, and its last error
    stdin,              \* what the user types at the confirmation prompt
    claudeMD,           \* <installDir>/CLAUDE.md
    usageGuideMD,       \* <installDir>/GKE_MCP_USAGE_GUIDE.md
    claudeCommand,      \* the 'claude' executable: whether it fails, its runs
    claudeCodeResult,   \* what ClaudeCodeExtension returned, NotRun before
    req,                \* a LogQueryRequest
    errMsg,             \* what req.validate() returned, NotRun before
    parseArgs,          \* a version string to parse, and one to compare it with
    parseOutcome,       \* what parseGkeVersion and compareVersions returned
    secondCall          \* a later call on an edited document, and its outcome

extractVars == <<fullReleaseNotes, sourceVersion, targetVersion, outcome>>
compareVars == <<compareArgs, compareResults>>
processVars == <<gkeVersionRegexp, releaseDateHeadingRegexp, stdout, logged>>
goVars == <<goArgs, goPc, goLocals>>
changelogVars == <<changelog, changes>>
configVars == <<existingConfig, cursorConfig, claudeConfig, installs>>
claudeCodeVars == <<stdin, claudeMD, usageGuideMD, claudeCommand, claudeCodeResult>>
queryVars == <<req, errMsg>>
parseVars == <<parseArgs, parseOutcome>>
vars == <<extractVars, compareVars, processVars, calls, goVars, changelogVars, configVars,
          claudeCodeVars, queryVars, parseVars, secondCall>>

\* regexp.MustCompile at package initialisation
CompiledVersionRegexp == "\\d+\\.\\d+\\.\\d+-gke\\.\\d+"
CompiledHeadingRegexp == "(^|\\n)\\s*[A-Za-z]+\\s+\\d+,\\s+\\d+\\s*(\\n|$)"

ExtractIdle ==
    /\ fullReleaseNotes = <<>>
    /\ sourceVersion = <<>>
    /\ targetVersion = <<>>
    /\ outcome = NoOutcome
CompareIdle ==
    /\ compareArgs = <<>>
    /\ compareResults = <<>>

\* the process after package initialisation
ProcessIdle ==
    /\ gkeVersionRegexp = CompiledVersionRegexp
    /\ releaseDateHeadingRegexp = CompiledHeadingRegexp
    /\ stdout = <<>>
    /\ logged = 0
CallsIdle == calls = <<>>
GoIdle ==
    /\ goArgs = <<>>
    /\ goPc = <<>>
    /\ goLocals = <<>>

NotRun == "not run"
ChangelogIdle ==
    /\ changelog = <<>>
    /\ changes = NotRun

NoFile == [exists |-> FALSE, valid |-> FALSE, json |-> <<>>]
NoInstalls == [cursor |-> [runs |-> 0, err |-> FALSE], claude |-> [runs |-> 0, err |-> FALSE]]
ConfigIdle ==
    /\ existingConfig = NoFile
    /\ cursorConfig = NoFile
    /\ claudeConfig = NoFile
    /\ installs = NoInstalls

NoText == [exists |-> FALSE, stat |-> "absent", content |-> <<>>]
ClaudeCodeIdle ==
    /\ stdin = [text |-> "", padded |-> FALSE, newline |-> FALSE]
    /\ claudeMD = NoText
    /\ usageGuideMD = NoText
    /\ claudeCommand = [fails |-> FALSE, runs |-> <<>>]
    /\ claudeCodeResult = NotRun

LogQueryRequest(projectID, limit, since, timeRange, format) ==
    [ProjectID |-> projectID, Limit |-> limit, Since |-> since, TimeRange |-> timeRange,
     Format |-> format]
QueryIdle ==
    /\ req = LogQueryRequest("", 0, "", "nil", "")
    /\ errMsg = NotRun

\* nothing parsed or compared yet
NoParse ==
    [ran |-> FALSE, parsed |-> ParseError, ab |-> [err |-> TRUE, cmp |-> 0],
     ba |-> [err |-> TRUE, cmp |-> 0]]
ParseIdle ==
    /\ parseArgs = <<>>
    /\ parseOutcome = NoParse

\* no second call yet
NoSecondCall == [side |-> "none", fullReleaseNotes |-> <<>>, outcome |-> NoOutcome]
EditIdle == secondCall = NoSecondCall

\* the machines other than `machine` are idle, and stay so
Idle(machine) ==
    /\ IF machine \in {"extract", "edit"} THEN TRUE ELSE ExtractIdle
    /\ IF machine = "compare" THEN TRUE ELSE CompareIdle
    /\ IF machine \in {"calls", "goroutines"} THEN TRUE ELSE ProcessIdle
    /\ IF machine = "calls" THEN TRUE ELSE CallsIdle
    /\ IF machine = "goroutines" THEN TRUE ELSE GoIdle
    /\ IF machine = "changelog" THEN TRUE ELSE ChangelogIdle
    /\ IF machine = "config" THEN TRUE ELSE ConfigIdle
    /\ IF machine = "claudecode" THEN TRUE ELSE ClaudeCodeIdle
    /\ IF machine = "query" THEN TRUE ELSE QueryIdle
    /\ IF machine = "parse" THEN TRUE ELSE ParseIdle
    /\ IF machine = "edit" THEN TRUE ELSE EditIdle
Frame(machine) ==
    /\ IF machine \in {"extract", "edit"} THEN TRUE ELSE UNCHANGED extractVars
    /\ IF machine = "compare" THEN TRUE ELSE UNCHANGED compareVars
    /\ IF machine \in {"calls", "goroutines"} THEN TRUE ELSE UNCHANGED processVars
    /\ IF machine = "calls" THEN TRUE ELSE UNCHANGED calls
    /\ IF machine = "goroutines" THEN TRUE ELSE UNCHANGED goVars
    /\ IF machine = "changelog" THEN TRUE ELSE UNCHANGED changelogVars
    /\ IF machine = "config" THEN TRUE ELSE UNCHANGED configVars
    /\ IF machine = "claudecode" THEN TRUE ELSE UNCHANGED claudeCodeVars
    /\ IF machine = "query" THEN TRUE ELSE UNCHANGED queryVars
    /\ IF machine = "parse" THEN TRUE ELSE UNCHANGED parseVars
    /\ IF machine = "edit" THEN TRUE ELSE UNCHANGED secondCall

-----------------------------------------------------------------------------
(* One call of extractReleaseNotesRelevantForUpgrade *)

Init ==
    /\ fullReleaseNotes \in Documents
    /\ sourceVersion \in VersionArgs
    /\ targetVersion \in VersionArgs
    /\ outcome = NoOutcome
    /\ Idle("extract")

extractReleaseNotesRelevantForUpgrade ==
    /\ outcome.status = "none"
    /\ outcome' = Extract(fullReleaseNotes, sourceVersion, targetVersion)
    /\ UNCHANGED <<fullReleaseNotes, sourceVersion, targetVersion>>
    /\ Frame("extract")

Next == extractReleaseNotesRelevantForUpgrade

Spec == Init /\ [][Next]_vars

\* The same call on a document that is a list of entries and nothing else:
\* the two scans see the markers only.
EntryLists ==
    {Flatten([i \in 1..Len(vs) |-> Entry(vs[i])]) : vs \in SeqsUpTo(MarkerVersions, MaxEntries)}

ListInit ==
    /\ fullReleaseNotes \in EntryLists
    /\ sourceVersion \in VersionArgs
    /\ targetVersion \in VersionArgs
    /\ outcome = NoOutcome
    /\ Idle("extract")

ListSpec == ListInit /\ [][Next]_vars

-----------------------------------------------------------------------------
(* compareVersions called on every pair of three version strings *)

\* the numbers of the well-formed versions compared
CompareFields == {9, 10}
CompareVersionStrings ==
    {GkeVersion(f[1], f[2], f[3], f[4]) :
        f \in CompareFields \X CompareFields \X CompareFields \X CompareFields}
        \cup {VOverflow, VNoTag}

CompareInit ==
    /\ compareArgs \in CompareVersionStrings \X CompareVersionStrings \X CompareVersionStrings
    /\ compareResults = <<>>
    /\ Idle("compare")

compareVersionsCalls ==
    /\ compareResults = <<>>
    /\ compareResults' =
          [x \in 1..3 |-> [y \in 1..3 |-> compareVersions(compareArgs[x], compareArgs[y])]]
    /\ UNCHANGED compareArgs
    /\ Frame("compare")

CompareNext == compareVersionsCalls

CompareSpec == CompareInit /\ [][CompareNext]_vars

-----------------------------------------------------------------------------
(* parseGkeVersion called on one version string, and compareVersions on it *)
(* and a second string, in both orders                                     *)

\* Most "-gke." separated parts of a version string, most "." separated
\* fields of its first part.
MaxParts == 3
MaxFields == 4

\* "1", "-5", "99999999999999999999", "x"
ParseFields == {Num(1), Num(-5), Big, Alpha}
\* the text before the first "-gke.": two fields or more
K8sVersionParts == UNION {[1..n -> ParseFields] : n \in 2..MaxFields}
\* the text after a "-gke.": one field
GkeVersionParts == {<<f>> : f \in ParseFields}
\* no separator, one, or more: every further "-gke." is followed by "1"
ParseVersionStrings ==
    {<<k>> : k \in K8sVersionParts}
        \cup {<<k, g>> \o [i \in 1..n |-> <<Num(1)>>] :
                 k \in K8sVersionParts, g \in GkeVersionParts, n \in 0..(MaxParts - 2)}
ParseOthers == {VMid, VNoTag}

ParseInit ==
    /\ parseArgs \in ParseVersionStrings \X ParseOthers
    /\ parseOutcome = NoParse
    /\ Idle("parse")

parseAndCompare ==
    /\ ~parseOutcome.ran
    /\ parseOutcome' =
          [ran |-> TRUE,
           parsed |-> parseGkeVersion(parseArgs[1]),
           ab |-> compareVersions(parseArgs[1], parseArgs[2]),
           ba |-> compareVersions(parseArgs[2], parseArgs[1])]
    /\ UNCHANGED parseArgs
    /\ Frame("parse")

ParseNext == parseAndCompare

ParseSpec == ParseInit /\ [][ParseNext]_vars

-----------------------------------------------------------------------------
(* A call, and a second call with the same versions on a document that     *)
(* differs from the first beyond the marker at which a scan stopped        *)

\* Longest list of entries of the first document; most entries that replace
\* the part of it beyond the stop.
MaxListed == 3
MaxReplaced == 2

ListDocuments ==
    {Flatten([i \in 1..Len(vs) |-> Entry(vs[i])]) : vs \in SeqsUpTo(MarkerVersions, MaxListed)}
Replacements ==
    {Flatten([i \in 1..Len(vs) |-> Entry(vs[i])]) : vs \in SeqsUpTo(MarkerVersions, MaxReplaced)}
ListVersions == {VBelowMid, VMid, VAboveMid}

\* the tokens at which the left scan (from the start) and the right scan
\* (from the end) stop: a marker on which compareVersions gives no error and
\* a result that breaks the loop; 0 when the scan runs through the list
LeftStop(doc, target) ==
    LET stops == {i \in 1..Len(doc) :
                    /\ doc[i].kind = "M"
                    /\ ~compareVersions(doc[i].text, target).err
                    /\ compareVersions(doc[i].text, target).cmp >= 0}
    IN IF stops = {} THEN 0 ELSE CHOOSE i \in stops : \A j \in stops : i <= j
RightStop(doc, source) ==
    LET stops == {i \in 1..Len(doc) :
                    /\ doc[i].kind = "M"
                    /\ ~compareVersions(doc[i].text, source).err
                    /\ compareVersions(doc[i].text, source).cmp <= 0}
    IN IF stops = {} THEN 0 ELSE CHOOSE i \in stops : \A j \in stops : i >= j

EditInit ==
    /\ fullReleaseNotes \in ListDocuments
    /\ sourceVersion \in ListVersions
    /\ targetVersion \in ListVersions
    /\ outcome = NoOutcome
    /\ secondCall = NoSecondCall
    /\ Idle("edit")

firstCall ==
    /\ outcome.status = "none"
    /\ outcome' = Extract(fullReleaseNotes, sourceVersion, targetVersion)
    /\ UNCHANGED <<fullReleaseNotes, sourceVersion, targetVersion, secondCall>>
    /\ Frame("edit")

\* the text after the marker at which the left scan stopped is replaced
callAfterLeftStop ==
    /\ outcome.status # "none"
    /\ secondCall.side = "none"
    /\ LeftStop(fullReleaseNotes, targetVersion) # 0
    /\ \E entries \in Replacements :
          LET doc == SubSeq(fullReleaseNotes, 1, LeftStop(fullReleaseNotes, targetVersion))
                         \o entries
          IN secondCall' = [side |-> "left", fullReleaseNotes |-> doc,
                            outcome |-> Extract(doc, sourceVersion, targetVersion)]
    /\ UNCHANGED extractVars
    /\ Frame("edit")

\* the text before the marker at which the right scan stopped is replaced
callAfterRightStop ==
    /\ outcome.status # "none"
    /\ secondCall.side = "none"
    /\ RightStop(fullReleaseNotes, sourceVersion) # 0
    /\ \E entries \in Replacements :
          LET doc == entries \o <<Tok("S")>>
                         \o SubSeq(fullReleaseNotes,
                                   RightStop(fullReleaseNotes, sourceVersion),
                                   Len(fullReleaseNotes))
          IN secondCall' = [side |-> "right", fullReleaseNotes |-> doc,
                            outcome |-> Extract(doc, sourceVersion, targetVersion)]
    /\ UNCHANGED extractVars
    /\ Frame("edit")

EditNext == firstCall \/ callAfterLeftStop \/ callAfterRightStop

EditSpec == EditInit /\ [][EditNext]_vars

-----------------------------------------------------------------------------
(* A program that makes one extraction call after another *)

\* Longest run of calls.
MaxCalls == 3

\* " 1.3.1-gke.7*\n<date>\n 1.3.1-gke.2* 1.3.1-gke.2* 1.2.3-gke.4*", a list with
\* a version that overflows, and a text without versions
CallDocuments ==
    {Entry(VNew) \o DateLine \o Entry(VMid) \o Entry(VMid) \o Entry(VOld),
     Entry(VNew) \o Entry(VOverflow) \o Entry(VOld),
     DateLine \o <<Tok("T")>>}
CallVersions == {VBelowMid, VAboveMid}

Crashed == \E i \in 1..Len(calls) : calls[i].outcome.status = "panic"

CallsInit ==
    /\ ProcessIdle
    /\ calls = <<>>
    /\ Idle("calls")

\* extractReleaseNotesRelevantForUpgrade that takes the target of the
\* previous call from a package-level cache
extractCallCached(doc, source, target) ==
    /\ Len(calls) < MaxCalls /\ ~Crashed
    /\ gkeVersionRegexp = CompiledVersionRegexp
    /\ releaseDateHeadingRegexp = CompiledHeadingRegexp
    /\ LET cached == IF calls = <<>> THEN target ELSE calls[Len(calls)].targetVersion
           writes == Writes(doc, source, cached)
       IN /\ calls' = Append(calls, [fullReleaseNotes |-> doc, sourceVersion |-> source,
                                      targetVersion |-> target,
                                      outcome |-> Extract(doc, source, cached)])
          /\ stdout' = stdout \o writes.stdout
          /\ logged' = logged + writes.log
    /\ UNCHANGED <<gkeVersionRegexp, releaseDateHeadingRegexp>>
    /\ Frame("calls")

\* one call: it reads its arguments and the two patterns, writes the lines
\* of Writes and returns (or panics, which ends the program)
extractCall(doc, source, target) ==
    /\ Len(calls) < MaxCalls /\ ~Crashed
    /\ gkeVersionRegexp = CompiledVersionRegexp
    /\ releaseDateHeadingRegexp = CompiledHeadingRegexp
    /\ LET writes == Writes(doc, source, target)
       IN /\ calls' = Append(calls, [fullReleaseNotes |-> doc, sourceVersion |-> source,
                                      targetVersion |-> target,
                                      outcome |-> Extract(doc, source, target)])
          /\ stdout' = stdout \o writes.stdout
          /\ logged' = logged + writes.log
    /\ UNCHANGED <<gkeVersionRegexp, releaseDateHeadingRegexp>>
    /\ Frame("calls")

CallsNext ==
    \E doc \in CallDocuments, source \in CallVersions, target \in CallVersions :
        extractCall(doc, source, target)

CallsSpec == CallsInit /\ [][CallsNext]_vars

-----------------------------------------------------------------------------
(* Extraction calls running in goroutines of one process.  A goroutine     *)
(* moves by one statement block at a time: the marker search, one          *)
(* iteration of a scan loop, the borders with the slice expression, the    *)
(* left expansion, the right expansion with the return.  An unrecovered    *)
(* panic ends the process, and with it every goroutine.                    *)

Goroutines == {1, 2}

GoCall(doc, source, target) ==
    [fullReleaseNotes |-> doc, sourceVersion |-> source, targetVersion |-> target]
GoCalls ==
    {GoCall(doc, source, target) :
        doc \in CallDocuments, source \in CallVersions, target \in CallVersions}

NoLocals ==
    [versionLocations |-> <<>>, locIndex |-> 0, leftBorderVersionLocation |-> Nil,
     iFromEnd |-> 0, rightBorderVersionLocation |-> Nil,
     leftBorder |-> 0, rightBorder |-> 0, from |-> 0, to |-> 0]

GoInit ==
    /\ ProcessIdle
    /\ goArgs \in [Goroutines -> GoCalls]
    /\ goPc = [g \in Goroutines |-> "find"]
    /\ goLocals = [g \in Goroutines |-> NoLocals]
    /\ Idle("goroutines")

ProcessAlive == \A g \in Goroutines : goPc[g] # "panic"

\* what every step leaves alone
GoFrame ==
    /\ UNCHANGED <<gkeVersionRegexp, releaseDateHeadingRegexp, goArgs>>
    /\ Frame("goroutines")

\* versionLocations := gkeVersionRegexp.FindAllStringIndex(fullReleaseNotes, -1)
findVersions(g) ==
    /\ ProcessAlive /\ goPc[g] = "find"
    /\ gkeVersionRegexp = CompiledVersionRegexp
    /\ LET versionLocations == FindAllVersions(goArgs[g].fullReleaseNotes)
       IN /\ goLocals' = [goLocals EXCEPT ![g].versionLocations = versionLocations,
                                          ![g].locIndex = 1,
                                          ![g].iFromEnd = Len(versionLocations)]
          /\ goPc' = [goPc EXCEPT ![g] = IF versionLocations = <<>> THEN "borders" ELSE "left"]
    /\ UNCHANGED <<stdout, logged>>
    /\ GoFrame

\* leftIteration with leftBorderVersionLocation declared at package level,
\* one variable for all goroutines
leftIterationSharedBorder(g) ==
    /\ ProcessAlive /\ goPc[g] = "left"
    /\ LET l == goLocals[g]
           loc == l.versionLocations[l.locIndex]
           version == VersionText(goArgs[g].fullReleaseNotes, loc)
           c == compareVersions(version, goArgs[g].targetVersion)
           stop == ~c.err /\ c.cmp >= 0
           found == IF c.cmp = 0 \/ l.locIndex = 1 THEN loc
                    ELSE l.versionLocations[l.locIndex - 1]
       IN /\ logged' = IF c.err THEN logged + 1 ELSE logged
          /\ stdout' = IF c.err THEN stdout
                       ELSE Append(stdout, CmpLine(c.cmp, version, goArgs[g].targetVersion))
          /\ goLocals' = IF stop THEN [h \in Goroutines |->
                                        [goLocals[h] EXCEPT !.leftBorderVersionLocation = found]]
                         ELSE [goLocals EXCEPT ![g].locIndex = l.locIndex + 1]
          /\ goPc' = [goPc EXCEPT ![g] = IF stop \/ l.locIndex = Len(l.versionLocations)
                                         THEN "right" ELSE "left"]
    /\ GoFrame

\* one iteration of the left scan
leftIteration(g) ==
    /\ ProcessAlive /\ goPc[g] = "left"
    /\ LET l == goLocals[g]
           loc == l.versionLocations[l.locIndex]
           version == VersionText(goArgs[g].fullReleaseNotes, loc)
           c == compareVersions(version, goArgs[g].targetVersion)
           stop == ~c.err /\ c.cmp >= 0
           found == IF c.cmp = 0 \/ l.locIndex = 1 THEN loc
                    ELSE l.versionLocations[l.locIndex - 1]
       IN /\ logged' = IF c.err THEN logged + 1 ELSE logged
          /\ stdout' = IF c.err THEN stdout
                       ELSE Append(stdout, CmpLine(c.cmp, version, goArgs[g].targetVersion))
          /\ goLocals' = IF stop THEN [goLocals EXCEPT ![g].leftBorderVersionLocation = found]
                         ELSE [goLocals EXCEPT ![g].locIndex = l.locIndex + 1]
          /\ goPc' = [goPc EXCEPT ![g] = IF stop \/ l.locIndex = Len(l.versionLocations)
                                         THEN "right" ELSE "left"]
    /\ GoFrame

\* one iteration of the right scan
rightIteration(g) ==
    /\ ProcessAlive /\ goPc[g] = "right"
    /\ LET l == goLocals[g]
           loc == l.versionLocations[l.iFromEnd]
           version == VersionText(goArgs[g].fullReleaseNotes, loc)
           c == compareVersions(version, goArgs[g].sourceVersion)
           stop == ~c.err /\ c.cmp <= 0
           found == IF c.cmp = 0 \/ l.iFromEnd = Len(l.versionLocations) THEN loc
                    ELSE l.versionLocations[l.iFromEnd + 1]
       IN /\ logged' = IF c.err THEN logged + 1 ELSE logged
          /\ goLocals' = IF stop THEN [goLocals EXCEPT ![g].rightBorderVersionLocation = found]
                         ELSE [goLocals EXCEPT ![g].iFromEnd = l.iFromEnd - 1]
          /\ goPc' = [goPc EXCEPT ![g] = IF stop \/ l.iFromEnd = 1 THEN "borders" ELSE "right"]
    /\ UNCHANGED stdout
    /\ GoFrame

\* leftBorder, rightBorder and fullReleaseNotes[leftBorder:rightBorder]
computeBorders(g) ==
    /\ ProcessAlive /\ goPc[g] = "borders"
    /\ LET l == goLocals[g]
           leftBorder == IF l.leftBorderVersionLocation # Nil
                         THEN l.leftBorderVersionLocation[1] ELSE 0
           rightBorder == IF l.rightBorderVersionLocation # Nil
                          THEN l.rightBorderVersionLocation[2]
                          ELSE TextLen(goArgs[g].fullReleaseNotes)
       IN /\ goLocals' = [goLocals EXCEPT ![g].leftBorder = leftBorder,
                                          ![g].rightBorder = rightBorder]
          /\ goPc' = [goPc EXCEPT ![g] = IF leftBorder > rightBorder THEN "panic"
                                         ELSE "expandLeft"]
    /\ UNCHANGED <<stdout, logged>>
    /\ GoFrame

\* leftAppend
expandLeft(g) ==
    /\ ProcessAlive /\ goPc[g] = "expandLeft"
    /\ releaseDateHeadingRegexp = CompiledHeadingRegexp
    /\ goLocals' = [goLocals EXCEPT
                       ![g].from = LeftExpand(goArgs[g].fullReleaseNotes, goLocals[g].leftBorder)]
    /\ goPc' = [goPc EXCEPT ![g] = "expandRight"]
    /\ UNCHANGED <<stdout, logged>>
    /\ GoFrame

\* rightAppend and the return
expandRight(g) ==
    /\ ProcessAlive /\ goPc[g] = "expandRight"
    /\ releaseDateHeadingRegexp = CompiledHeadingRegexp
    /\ goLocals' = [goLocals EXCEPT
                       ![g].to = RightExpand(goArgs[g].fullReleaseNotes, goLocals[g].rightBorder)]
    /\ goPc' = [goPc EXCEPT ![g] = "done"]
    /\ UNCHANGED <<stdout, logged>>
    /\ GoFrame

GoNext ==
    \E g \in Goroutines :
        \/ findVersions(g)
        \/ leftIteration(g)
        \/ rightIteration(g)
        \/ computeBorders(g)
        \/ expandLeft(g)
        \/ expandRight(g)

GoSpec == GoInit /\ [][GoNext]_vars

-----------------------------------------------------------------------------
(* keepOnlyChanges of the Kubernetes changelog tool.  The changelog is     *)
(* kept as strings.Split(changelog, "\n") sees it, and a line by what the  *)
(* function asks of it: "version" matches changelogVersionLineRegexp       *)
(* ("# v1.33.6"), "dependencies" and "downloads" start with one of         *)
(* ignoredSectionPrefixes, "h1" and "h2" are other lines that start with   *)
(* "# " and "## ", "text" is any other line (text names it).               *)

\* Longest changelog, in lines.
MaxLines == 4

Line(kind, text) == [kind |-> kind, text |-> text]
ChangelogLines ==
    {Line(k, "") : k \in {"version", "h1", "h2", "dependencies", "downloads"}}
        \cup {Line("text", "- a change"), Line("text", "")}
Changelogs == UNION {[1..n -> ChangelogLines] : n \in 1..MaxLines}

\* changelogVersionLineRegexp.MatchString(line)
MatchesVersionLine(line) == line.kind = "version"
\* strings.HasPrefix(line, prefix) for some prefix of ignoredSectionPrefixes
HasIgnoredPrefix(line) == line.kind \in {"dependencies", "downloads"}
\* strings.HasPrefix(line, "# ") || strings.HasPrefix(line, "## ")
HasHeadingPrefix(line) == line.kind \in {"version", "h1", "h2", "dependencies", "downloads"}

\* keepOnlyChangesFrom that never leaves an ignored section
RECURSIVE keepOnlyChangesNoReset(_, _, _, _)
keepOnlyChangesNoReset(lines, i, hasMetTheFirstVersionHeading, isInIgnoredSection) ==
    IF i > Len(lines) THEN <<>>
    ELSE LET line == lines[i]
             met == hasMetTheFirstVersionHeading \/ MatchesVersionLine(line)
         IN IF ~met THEN keepOnlyChangesNoReset(lines, i + 1, FALSE, isInIgnoredSection)
            ELSE IF HasIgnoredPrefix(line) THEN keepOnlyChangesNoReset(lines, i + 1, TRUE, TRUE)
            ELSE IF isInIgnoredSection THEN keepOnlyChangesNoReset(lines, i + 1, TRUE, TRUE)
            ELSE <<line>> \o keepOnlyChangesNoReset(lines, i + 1, TRUE, FALSE)

\* the loop of keepOnlyChanges from line i on: the lines written to result
RECURSIVE keepOnlyChangesFrom(_, _, _, _)
keepOnlyChangesFrom(lines, i, hasMetTheFirstVersionHeading, isInIgnoredSection) ==
    IF i > Len(lines) THEN <<>>
    ELSE LET line == lines[i]
             met == hasMetTheFirstVersionHeading \/ MatchesVersionLine(line)
             stillIgnored == isInIgnoredSection /\ ~HasHeadingPrefix(line)
         IN IF ~met THEN keepOnlyChangesFrom(lines, i + 1, FALSE, isInIgnoredSection)
            ELSE IF HasIgnoredPrefix(line) THEN keepOnlyChangesFrom(lines, i + 1, TRUE, TRUE)
            ELSE IF stillIgnored THEN keepOnlyChangesFrom(lines, i + 1, TRUE, TRUE)
            ELSE <<line>> \o keepOnlyChangesFrom(lines, i + 1, TRUE, FALSE)

ChangelogInit ==
    /\ changelog \in Changelogs
    /\ changes = NotRun
    /\ Idle("changelog")

keepOnlyChanges ==
    /\ changes = NotRun
    /\ changes' = keepOnlyChangesFrom(changelog, 1, FALSE, FALSE)
    /\ UNCHANGED changelog
    /\ Frame("changelog")

ChangelogNext == keepOnlyChanges

ChangelogSpec == ChangelogInit /\ [][ChangelogNext]_vars

-----------------------------------------------------------------------------
(* CursorMCPExtension and ClaudeDesktopExtension on a JSON config file.    *)
(* A JSON text is kept as the value it denotes: a string, a number or an   *)
(* object.  A number is the float64 nearest to it (float) and what the     *)
(* literal has beyond that (rest): 9007199254740993 is 2^53 with rest 1.   *)
(* json.Unmarshal into map[string]interface{} stores a number as float64,  *)
(* and json.MarshalIndent writes the float64 back.                         *)

\* How often each installer runs.
MaxInstalls == 2

JStr(text) == [type |-> "string", text |-> text]
JNum(float, rest) == [type |-> "number", float |-> float, rest |-> rest]
JObj(fields) == [type |-> "object", fields |-> fields]
EmptyObject == JObj([k \in {} |-> JStr("")])
IsObject(v) == v.type = "object"
HasKey(obj, k) == k \in DOMAIN obj.fields
\* obj[k] = v
SetKey(obj, k, v) ==
    JObj([x \in DOMAIN obj.fields \cup {k} |-> IF x = k THEN v ELSE obj.fields[x]])

\* json.Unmarshal(data, &config), for a text that denotes v
RECURSIVE Unmarshal(_)
Unmarshal(v) ==
    IF v.type = "number" THEN JNum(v.float, 0)
    ELSE IF v.type = "object"
         THEN JObj([k \in DOMAIN v.fields |-> Unmarshal(v.fields[k])])
    ELSE v
\* json.MarshalIndent(config, "", "  "): the value the text written denotes
MarshalIndent(config) == config

testExePath == "/usr/local/bin/gke-mcp"

\* values of settings, and entries of other servers
SettingValues == {JStr("value"), JNum(7, 0), JNum(7, 1)}
ServerEntries ==
    {JObj([command |-> JStr("/usr/bin/existing"), type |-> JStr("stdio")]),
     JObj([command |-> JStr("/usr/bin/existing"), timeout |-> JNum(7, 1)])}
ServerMaps ==
    {EmptyObject} \cup {JObj([k \in ks |-> e[k]]) :
                           ks \in (SUBSET {"existing-server", "gke-mcp"}) \ {{}},
                           e \in [{"existing-server", "gke-mcp"} -> ServerEntries]}
Configs ==
    {EmptyObject}
        \cup {JObj([otherSetting |-> v]) : v \in SettingValues}
        \cup {JObj([mcpServers |-> m]) : m \in ServerMaps \cup {JStr("none")}}
        \cup {JObj([mcpServers |-> m, otherSetting |-> v]) :
                  m \in ServerMaps \cup {JStr("none")}, v \in SettingValues}
File(json) == [exists |-> TRUE, valid |-> TRUE, json |-> json]
\* a file that is not a JSON object
MalformedFile == [exists |-> TRUE, valid |-> FALSE, json |-> <<>>]
ConfigFiles == {NoFile, MalformedFile} \cup {File(c) : c \in Configs}

ConfigInit ==
    /\ existingConfig \in ConfigFiles
    /\ cursorConfig = existingConfig
    /\ claudeConfig = existingConfig
    /\ installs = NoInstalls
    /\ Idle("config")

\* the file CursorMCPExtension leaves at mcpPath (unchanged when it fails)
CursorWritten(file) ==
    LET config == IF file.exists THEN Unmarshal(file.json) ELSE EmptyObject
        withServers == IF HasKey(config, "mcpServers") THEN config
                       ELSE SetKey(config, "mcpServers", EmptyObject)
        mcpServers == IF IsObject(withServers.fields["mcpServers"])
                      THEN withServers.fields["mcpServers"] ELSE EmptyObject
        entry == JObj([command |-> JStr(testExePath), type |-> JStr("stdio")])
    IN File(MarshalIndent(SetKey(withServers, "mcpServers",
                                 SetKey(mcpServers, "gke-mcp", entry))))

\* the file ClaudeDesktopExtension leaves at configPath
ClaudeWritten(file) ==
    LET config == IF file.exists THEN Unmarshal(file.json) ELSE EmptyObject
        mcpServers == IF HasKey(config, "mcpServers") /\ IsObject(config.fields["mcpServers"])
                      THEN config.fields["mcpServers"] ELSE EmptyObject
        entry == JObj([command |-> JStr(testExePath)])
    IN File(MarshalIndent(SetKey(config, "mcpServers",
                                 SetKey(mcpServers, "gke-mcp", entry))))

CursorMCPExtension ==
    /\ installs.cursor.runs < MaxInstalls
    /\ LET fails == cursorConfig.exists /\ ~cursorConfig.valid
       IN /\ cursorConfig' = IF fails THEN cursorConfig ELSE CursorWritten(cursorConfig)
          /\ installs' = [installs EXCEPT !.cursor = [runs |-> @.runs + 1, err |-> fails]]
    /\ UNCHANGED <<existingConfig, claudeConfig>>
    /\ Frame("config")

ClaudeDesktopExtension ==
    /\ installs.claude.runs < MaxInstalls
    /\ LET fails == claudeConfig.exists /\ ~claudeConfig.valid
       IN /\ claudeConfig' = IF fails THEN claudeConfig ELSE ClaudeWritten(claudeConfig)
          /\ installs' = [installs EXCEPT !.claude = [runs |-> @.runs + 1, err |-> fails]]
    /\ UNCHANGED <<existingConfig, cursorConfig>>
    /\ Frame("config")

ConfigNext == CursorMCPExtension \/ ClaudeDesktopExtension

ConfigSpec == ConfigInit /\ [][ConfigNext]_vars

-----------------------------------------------------------------------------
(* ClaudeCodeExtension.  What the user types is a word (text), blanks      *)
(* around it or not (padded), and a line end after it or the end of the    *)
(* input (newline).                                                        *)

AnswerWords == {"yes", "YES", "Yes", "no", "y", "yes please", ""}
Answers == [text : AnswerWords, padded : BOOLEAN, newline : BOOLEAN]

\* strings.ToLower(strings.TrimSpace(response)): the blanks and the line end
\* go, the letters become lower case
ToLowerTrimSpace(response) ==
    IF response.text \in {"yes", "YES", "Yes"} THEN "yes" ELSE response.text

\* reader.ReadString('\n') fails with io.EOF when the input ends before a
\* line end, whatever was read
ReadStringFails(input) == ~input.newline

ExistingText == [exists |-> TRUE, stat |-> "exists", content |-> <<"# Existing Content">>]
\* os.Stat fails with an error other than 'not exist'
UnreadableText == [exists |-> TRUE, stat |-> "error", content |-> <<"# Existing Content">>]
GeminiMarkdown == "GEMINI.md"
claudeLine == "# GKE-MCP Server Instructions - @GKE_MCP_USAGE_GUIDE.md"

ClaudeCodeInit ==
    /\ stdin \in Answers
    /\ claudeMD \in {NoText, ExistingText, UnreadableText}
    /\ usageGuideMD \in {NoText, [exists |-> TRUE, stat |-> "exists", content |-> <<"old guide">>]}
    /\ claudeCommand \in {[fails |-> f, runs |-> <<>>] : f \in BOOLEAN}
    /\ claudeCodeResult = NotRun
    /\ Idle("claudecode")

\* the call up to the confirmation: "failed", "canceled" or "confirmed"
Confirmation ==
    IF claudeMD.stat = "error" THEN "failed"
    ELSE IF ReadStringFails(stdin) THEN "failed"
    ELSE IF ToLowerTrimSpace(stdin) # "yes" THEN "canceled"
    ELSE "confirmed"

ClaudeCodeExtension ==
    /\ claudeCodeResult = NotRun
    /\ IF Confirmation = "confirmed"
       THEN /\ usageGuideMD' = [exists |-> TRUE, stat |-> "exists",
                                content |-> <<GeminiMarkdown>>]
            /\ claudeMD' = [exists |-> TRUE, stat |-> "exists",
                            content |-> Append(claudeMD.content, claudeLine)]
            /\ claudeCommand' =
                  [claudeCommand EXCEPT !.runs = Append(@, <<"mcp", "add", "gke-mcp", testExePath>>)]
            /\ claudeCodeResult' = IF claudeCommand.fails THEN "error" ELSE "nil"
       ELSE /\ UNCHANGED <<usageGuideMD, claudeMD, claudeCommand>>
            /\ claudeCodeResult' = IF Confirmation = "failed" THEN "error" ELSE "nil"
    /\ UNCHANGED stdin
    /\ Frame("claudecode")

ClaudeCodeNext == ClaudeCodeExtension

ClaudeCodeSpec == ClaudeCodeInit /\ [][ClaudeCodeNext]_vars

-----------------------------------------------------------------------------
(* LogQueryRequest.validate of the logging tool *)

maxLimit == 100

ProjectIDs == {"", "test-project"}
Limits == {-1, 0, 10, maxLimit, maxLimit + 1}
Sinces == {"", "1h", "90s", "invalid", "5d"}
TimeRanges == {"nil", "set"}
Formats == {"", "{{.timestamp}} {{.textPayload}}", "{{.invalid"}

\* time.ParseDuration(s) returns an error: the empty string is no duration,
\* and the units are ns, us, ms, s, m and h
ParseDurationFails(s) == s \notin {"1h", "90s"}
\* template.New("log").Parse(text) returns an error
TemplateParseFails(text) == text = "{{.invalid"

validate(r) ==
    IF r.ProjectID = "" THEN "project_id parameter is required"
    ELSE IF r.Limit > maxLimit THEN "limit parameter cannot be greater than 100"
    ELSE IF ParseDurationFails(r.Since) THEN "invalid since parameter"
    ELSE IF r.TimeRange # "nil" /\ r.Since # ""
         THEN "since parameter cannot be used with time_range"
    ELSE IF r.Format # "" /\ TemplateParseFails(r.Format) THEN "invalid format template"
    ELSE ""

QueryInit ==
    /\ req \in {LogQueryRequest(p, l, s, t, f) :
                    p \in ProjectIDs, l \in Limits, s \in Sinces, t \in TimeRanges,
                    f \in Formats}
    /\ errMsg = NotRun
    /\ Idle("query")

validateRequest ==
    /\ errMsg = NotRun
    /\ errMsg' = validate(req)
    /\ UNCHANGED req
    /\ Frame("query")

QueryNext == validateRequest

QuerySpec == QueryInit /\ [][QueryNext]_vars

-----------------------------------------------------------------------------
(* Vocabulary of the properties *)

Done == outcome.status # "none"
Returned == outcome.status = "returned"

Parses(version) == ~parseGkeVersion(version).err
Parsed(version) == parseGkeVersion(version).v

\* numeric order of (major, minor, patch, vendorPatch)
TupleLess(x, y) == \E i \in 1..4 : x[i] < y[i] /\ \A j \in 1..(i - 1) : x[j] = y[j]
TupleLeq(x, y) == x = y \/ TupleLess(x, y)

WellFormedArgs == Parses(sourceVersion) /\ Parses(targetVersion)
SourceNotNewer == WellFormedArgs /\ TupleLeq(Parsed(sourceVersion), Parsed(targetVersion))

IsMarker(tok) == tok.kind = "M"

\* The document as the properties see it: the markers in document order with
\* their offsets (loc) and what their text parses to (ver), the start
\* offsets of the date headings of the whole document (heads), its length,
\* and the two versions of the call.
ViewWith(heads) ==
    LET locs == FindAllVersions(fullReleaseNotes)
        toks == SelectSeq(fullReleaseNotes, IsMarker)
    IN [loc |-> locs,
        ver |-> [k \in 1..Len(locs) |-> parseGkeVersion(toks[k].text)],
        heads |-> heads,
        len |-> TextLen(fullReleaseNotes),
        source |-> Parsed(sourceVersion),
        target |-> Parsed(targetVersion)]
HeadingOffsets ==
    LET found == FindAllHeadings(fullReleaseNotes)
    IN {found[h][1] : h \in 1..Len(found)}
View == ViewWith(HeadingOffsets)
\* the same for the properties that do not look at the headings
MarkerView == ViewWith({})

Count(v) == Len(v.loc)
MarkerParses(v, k) == ~v.ver[k].err
AtMost(v, k, version) == MarkerParses(v, k) /\ TupleLeq(v.ver[k].v, version)
AtLeast(v, k, version) == MarkerParses(v, k) /\ TupleLeq(version, v.ver[k].v)
Newer(v, k, version) == MarkerParses(v, k) /\ TupleLess(version, v.ver[k].v)
Older(v, k, version) == MarkerParses(v, k) /\ TupleLess(v.ver[k].v, version)

\* marker k parses to a version in the closed range [source, target]
InRange(v, k) == AtLeast(v, k, v.source) /\ AtMost(v, k, v.target)
SomeInRange(v) == \E k \in 1..Count(v) : InRange(v, k)
FirstInRange(v) ==
    CHOOSE k \in 1..Count(v) : InRange(v, k) /\ \A x \in 1..(k - 1) : ~InRange(v, x)
LastInRange(v) ==
    CHOOSE k \in 1..Count(v) : InRange(v, k) /\ \A x \in (k + 1)..Count(v) : ~InRange(v, x)

\* first marker in document order that parses to a version <= target, and
\* last one that parses to a version >= source (0 when there is none)
FirstAtMost(v) ==
    LET ks == {k \in 1..Count(v) : AtMost(v, k, v.target)}
    IN IF ks = {} THEN 0 ELSE CHOOSE k \in ks : \A x \in ks : k <= x
LastAtLeast(v) ==
    LET ks == {k \in 1..Count(v) : AtLeast(v, k, v.source)}
    IN IF ks = {} THEN 0 ELSE CHOOSE k \in ks : \A x \in ks : x <= k

\* the list entry next to them on the outer side, unless the version is the
\* wanted one or there is no such entry
LeftEntry(v) ==
    LET i == FirstAtMost(v)
    IN IF i = 1 \/ v.ver[i].v = v.target THEN i ELSE i - 1
RightEntry(v) ==
    LET j == LastAtLeast(v)
    IN IF j = Count(v) \/ v.ver[j].v = v.source THEN j ELSE j + 1

\* start of the last heading of the document at or before offset off (0 when
\* there is none), start of the first one at or after off (the end of the
\* document when there is none)
HeadingBefore(v, off) ==
    LET hs == {o \in v.heads : o <= off}
    IN IF hs = {} THEN 0 ELSE CHOOSE o \in hs : \A x \in hs : x <= o
HeadingAfter(v, off) ==
    LET hs == {o \in v.heads : off <= o}
    IN IF hs = {} THEN v.len ELSE CHOOSE o \in hs : \A x \in hs : o <= x
\* number of headings of the document that start inside the returned text
HeadingsReturned(v) ==
    Cardinality({o \in v.heads : outcome.from <= o /\ o < outcome.to})

\* the offsets at which a date heading of the document starts: from the line
\* break that opens the match up to the date itself
HeadingStarts ==
    LET found == FindAllHeadings(fullReleaseNotes)
        DateAt(h) ==
            LET p == IndexAt(fullReleaseNotes, found[h][1])
            IN Off(fullReleaseNotes,
                   IF p = 1 THEN SkipSpace(fullReleaseNotes, 1)
                   ELSE SkipSpace(fullReleaseNotes, p + 1))
    IN UNION {found[h][1]..DateAt(h) : h \in 1..Len(found)}

-----------------------------------------------------------------------------
\* C1 (inclusion): after a call with well-formed versions, every marker whose
\* text parses to a version v with source <= v <= target lies entirely
\* inside the returned substring, whatever the order of the versions.
C1_Inclusion ==
    (Done /\ WellFormedArgs) =>
        LET v == MarkerView
        IN \A k \in 1..Count(v) :
              InRange(v, k) =>
                  /\ Returned
                  /\ outcome.from <= v.loc[k][1]
                  /\ v.loc[k][2] <= outcome.to

\* an in-range marker sits after an out-of-range one that the result leaves out
C1_Witness ==
    /\ Returned /\ WellFormedArgs
    /\ LET v == MarkerView
       IN \E k, j \in 1..Count(v) :
             /\ InRange(v, k)
             /\ MarkerParses(v, j) /\ ~InRange(v, j)
             /\ v.loc[j][2] <= outcome.from

\* C2: a sourceVersion or targetVersion that does not parse makes the call
\* fail with an error.
C2_FormatError ==
    (Done /\ ~WellFormedArgs) => (Returned /\ outcome.err)

\* C3: with well-formed source <= target the call completes and returns a
\* substring of the document without error, whatever markers fail to parse.
C3_NeverAborts ==
    (Done /\ SourceNotNewer) =>
        /\ Returned /\ ~outcome.err
        /\ 0 <= outcome.from /\ outcome.from <= outcome.to
        /\ outcome.to <= TextLen(fullReleaseNotes)

C5_Containment ==
    (Returned /\ WellFormedArgs /\ FindAllHeadings(fullReleaseNotes) # <<>>) =>
        LET starts == HeadingStarts
        IN /\ outcome.from \in ({0} \cup starts)
           /\ outcome.to \in ({TextLen(fullReleaseNotes)} \cup starts)

Wider(s2, t2) ==
    /\ Parses(s2) /\ Parses(t2)
    /\ TupleLeq(Parsed(s2), Parsed(sourceVersion))
    /\ TupleLeq(Parsed(targetVersion), Parsed(t2))

\* C7 (monotonicity): the text returned for source' <= source <= target <=
\* target' contains the text returned for (source, target).
C7_Monotonic ==
    (Returned /\ SourceNotNewer) =>
        \A s2 \in VersionArgs, t2 \in VersionArgs :
            Wider(s2, t2) =>
                LET wide == Extract(fullReleaseNotes, s2, t2)
                IN /\ wide.status = "returned"
                   /\ wide.from <= outcome.from
                   /\ outcome.to <= wide.to

\* the scans of the call made stopped at a marker on both sides
BothScansStop ==
    LET v == MarkerView IN FirstAtMost(v) # 0 /\ LastAtLeast(v) # 0

\* C7 as amended: when some parsable marker is <= target and some parsable
\* marker is >= source, the window of the two scans for the wider pair
\* contains the window for (source, target).
C7_MonotonicScans ==
    (Done /\ SourceNotNewer /\ BothScansStop) =>
        /\ \A t2 \in VersionArgs \ {targetVersion} :
              Wider(sourceVersion, t2) =>
                  LeftBorder(fullReleaseNotes, t2) <= outcome.leftBorder
        /\ \A s2 \in VersionArgs \ {sourceVersion} :
              Wider(s2, targetVersion) =>
                  outcome.rightBorder <= RightBorder(fullReleaseNotes, s2)

\* a wider pair moves both borders outward
C7_Witness ==
    /\ Returned /\ SourceNotNewer /\ BothScansStop
    /\ \E s2 \in VersionArgs, t2 \in VersionArgs :
          /\ Wider(s2, t2)
          /\ LeftBorder(fullReleaseNotes, t2) < outcome.leftBorder
          /\ outcome.rightBorder < RightBorder(fullReleaseNotes, s2)

\* the last marker of the document parses and is strictly newer than source
LastMarkerNewer(v) ==
    /\ Parses(sourceVersion) /\ Count(v) > 0
    /\ Newer(v, Count(v), v.source)

\* date headings found in the text after the last marker
HeadingsAfterLastMarker(v) ==
    FindAllHeadings(SubSeq(fullReleaseNotes,
                           IndexAt(fullReleaseNotes, v.loc[Count(v)][2]),
                           Len(fullReleaseNotes)))

\* C8: when the last marker of the document is strictly newer than source,
\* the returned text runs to the end of the document.
C8_RunsToEnd ==
    (Done /\ WellFormedArgs) =>
        LET v == MarkerView
        IN LastMarkerNewer(v) => (Returned /\ outcome.to = v.len)

\* C8 as amended: then the right border of the scan is the end of the last
\* marker, and the returned text runs to the end of the document exactly when
\* no date heading is found after that marker.
C8_RunsToEndOfSection ==
    Done =>
        LET v == MarkerView
        IN LastMarkerNewer(v) =>
              /\ Returned
              /\ outcome.rightBorder = v.loc[Count(v)][2]
              /\ outcome.rightBorder <= outcome.to
              /\ (outcome.to = v.len) <=> (HeadingsAfterLastMarker(v) = <<>>)

\* several markers, the last one newer than source, text after it
C8_Witness ==
    /\ Returned /\ WellFormedArgs
    /\ LET v == MarkerView
       IN /\ LastMarkerNewer(v)
          /\ Count(v) >= 2
          /\ HeadingsAfterLastMarker(v) = <<>>
          /\ v.loc[Count(v)][2] < v.len
          /\ outcome.to = v.len /\ outcome.from > 0

\* C9: when no marker of the document parses (or there is none), the call
\* returns the whole document, with or without date headings in it.
C9_NoMarkerWholeDocument ==
    (Done /\ WellFormedArgs) =>
        LET v == MarkerView
        IN (\A k \in 1..Count(v) : ~MarkerParses(v, k)) =>
              /\ Returned /\ ~outcome.err
              /\ outcome.from = 0 /\ outcome.to = v.len

\* markers that do not parse, between date headings
C9_Witness ==
    /\ Returned /\ WellFormedArgs
    /\ LET v == View
       IN /\ Count(v) >= 2 /\ \A k \in 1..Count(v) : ~MarkerParses(v, k)
          /\ Cardinality(v.heads) >= 2
          /\ outcome.from = 0 /\ outcome.to = v.len

\* Markers k and k+1 lie in adjacent dated sections and source and target
\* both fall strictly between their versions; the markers before k are newer
\* than target and those after k+1 older than source.
Enclosed(v, k) ==
    /\ k + 1 <= Count(v)
    /\ Newer(v, k, v.target) /\ Older(v, k + 1, v.source)
    /\ \A x \in 1..(k - 1) : Newer(v, x, v.target)
    /\ \A x \in (k + 2)..Count(v) : Older(v, x, v.source)
    /\ \E o \in v.heads : o < v.loc[k][1]
    /\ Cardinality({o \in v.heads : v.loc[k][2] <= o /\ o < v.loc[k + 1][1]}) = 1

C19_LeftBoundary ==
    (Done /\ Parses(targetVersion)) =>
        LET v == MarkerView
        IN outcome.leftBorder =
              IF FirstAtMost(v) = 0 THEN 0 ELSE v.loc[LeftEntry(v)][1]

\* the scan skips a marker that does not parse, stops at an older marker past
\* it and takes the start of the entry before that one
C19_Witness ==
    /\ Returned /\ Parses(targetVersion)
    /\ LET v == MarkerView
       IN /\ FirstAtMost(v) >= 3
          /\ \E k \in 1..(FirstAtMost(v) - 2) : ~MarkerParses(v, k)
          /\ Older(v, FirstAtMost(v), v.target)
          /\ outcome.leftBorder = v.loc[FirstAtMost(v) - 1][1]

\* C20 (right boundary rule): the right scan, from the last marker backward,
\* stops at the first parsable marker j whose version is >= source; right is
\* that marker's end if its version equals source or it is the last marker,
\* otherwise the end of the list entry just after it; without such a marker
\* right is the end of the document.
C20_RightBoundary ==
    (Done /\ Parses(sourceVersion)) =>
        LET v == MarkerView
        IN outcome.rightBorder =
              IF LastAtLeast(v) = 0 THEN v.len ELSE v.loc[RightEntry(v)][2]

\* the scan skips a marker that does not parse, stops at a newer marker
\* before it and takes the end of the entry after that one
C20_Witness ==
    /\ Returned /\ Parses(sourceVersion)
    /\ LET v == MarkerView
       IN /\ LastAtLeast(v) >= 1 /\ LastAtLeast(v) <= Count(v) - 2
          /\ \E k \in (LastAtLeast(v) + 2)..Count(v) : ~MarkerParses(v, k)
          /\ Newer(v, LastAtLeast(v), v.source)
          /\ outcome.rightBorder = v.loc[LastAtLeast(v) + 1][2]
          /\ outcome.rightBorder < v.len

-----------------------------------------------------------------------------
(* compareVersions *)

Compared == compareResults # <<>>
CompareParses(x) == Parses(compareArgs[x])
CompareTuple(x) == Parsed(compareArgs[x])
Cmp(x, y) == compareResults[x][y].cmp

\* C11: on well-formed versions compareVersions(a, b) is 1 exactly when the
\* tuple of b is greater than that of a, 0 exactly when the tuples are equal
\* and -1 exactly when b is less; compare(a, a) = 0,
\* compare(a, b) = -compare(b, a), and the order is transitive.
C11_TotalOrder ==
    Compared =>
        \A x, y \in 1..3 :
            (CompareParses(x) /\ CompareParses(y)) =>
                /\ ~compareResults[x][y].err
                /\ Cmp(x, y) \in {-1, 0, 1}
                /\ (Cmp(x, y) = 1) <=> TupleLess(CompareTuple(x), CompareTuple(y))
                /\ (Cmp(x, y) = 0) <=> (CompareTuple(x) = CompareTuple(y))
                /\ (Cmp(x, y) = -1) <=> TupleLess(CompareTuple(y), CompareTuple(x))
                /\ Cmp(x, x) = 0
                /\ Cmp(x, y) = -Cmp(y, x)
                /\ \A z \in 1..3 :
                      (CompareParses(z) /\ Cmp(x, y) >= 0 /\ Cmp(y, z) >= 0) =>
                          /\ Cmp(x, z) >= 0
                          /\ (Cmp(x, y) = 1 \/ Cmp(y, z) = 1) => Cmp(x, z) = 1

\* three versions in strictly increasing order that differ in the vendor
\* patch only, then in the patch
C11_Witness ==
    /\ Compared
    /\ \A x \in 1..3 : CompareParses(x)
    /\ Cmp(1, 2) = 1 /\ Cmp(2, 3) = 1 /\ Cmp(1, 3) = 1 /\ Cmp(3, 1) = -1
    /\ CompareTuple(1)[3] = CompareTuple(2)[3]
    /\ CompareTuple(1)[4] < CompareTuple(2)[4]
    /\ CompareTuple(2)[3] < CompareTuple(3)[3]
    /\ CompareTuple(2)[4] > CompareTuple(3)[4]

-----------------------------------------------------------------------------
(* Calls one after another *)

SameArguments(i, j) ==
    /\ calls[i].fullReleaseNotes = calls[j].fullReleaseNotes
    /\ calls[i].sourceVersion = calls[j].sourceVersion
    /\ calls[i].targetVersion = calls[j].targetVersion

C14_NoOutput ==
    stdout = <<>> /\ logged = 0

-----------------------------------------------------------------------------
(* Calls in goroutines *)

GoEnded(g) == goPc[g] \in {"done", "panic"}
GoOutcome(g) ==
    [status |-> IF goPc[g] = "panic" THEN "panic" ELSE "returned", err |-> FALSE,
     leftBorder |-> goLocals[g].leftBorder, rightBorder |-> goLocals[g].rightBorder,
     from |-> goLocals[g].from, to |-> goLocals[g].to]
Alone(g) ==
    Extract(goArgs[g].fullReleaseNotes, goArgs[g].sourceVersion, goArgs[g].targetVersion)

\* C13: under every interleaving of the steps of concurrent calls, a call
\* that ends has the result it has when run alone, and the two package-level
\* patterns are never written.
C13_NoSynchronization ==
    /\ gkeVersionRegexp = CompiledVersionRegexp
    /\ releaseDateHeadingRegexp = CompiledHeadingRegexp
    /\ \A g \in Goroutines : GoEnded(g) => GoOutcome(g) = Alone(g)

\* two calls on different inputs have both returned, the lines printed by
\* the one lying between lines printed by the other
C13_Witness ==
    /\ goPc[1] = "done" /\ goPc[2] = "done"
    /\ goArgs[1].fullReleaseNotes # goArgs[2].fullReleaseNotes
    /\ goArgs[1].targetVersion # goArgs[2].targetVersion
    /\ GoOutcome(1) # GoOutcome(2)
    /\ \E i, j, k \in 1..Len(stdout) :
          /\ i < j /\ j < k
          /\ stdout[i].target = goArgs[1].targetVersion
          /\ stdout[j].target = goArgs[2].targetVersion
          /\ stdout[k].target = goArgs[1].targetVersion

-----------------------------------------------------------------------------
(* keepOnlyChanges *)

IsVersionHeading(i) == changelog[i].kind = "version"
IsIgnoredHeader(i) == changelog[i].kind \in {"dependencies", "downloads"}
\* starts with "# " or "## " and is not an ignored header
EndsIgnoredSection(i) == changelog[i].kind \in {"version", "h1", "h2"}

HasVersionHeading == \E i \in 1..Len(changelog) : IsVersionHeading(i)
FirstVersionHeading ==
    CHOOSE i \in 1..Len(changelog) :
        IsVersionHeading(i) /\ \A j \in 1..(i - 1) : ~IsVersionHeading(j)
\* line i lies in an ignored section: from an ignored header up to, not
\* including, the next line that ends the section
InIgnoredSection(i) ==
    \E j \in 1..i :
        IsIgnoredHeader(j) /\ \A k \in (j + 1)..i : ~EndsIgnoredSection(k)
KeptLines ==
    IF ~HasVersionHeading THEN {}
    ELSE {i \in FirstVersionHeading..Len(changelog) : ~InIgnoredSection(i)}
RECURSIVE LinesAt(_, _)
LinesAt(idx, i) ==
    IF i > Len(changelog) THEN <<>>
    ELSE (IF i \in idx THEN <<changelog[i]>> ELSE <<>>) \o LinesAt(idx, i + 1)

\* C15: keepOnlyChanges outputs, in their original order, exactly the lines
\* from the first version heading on that are not inside an ignored section;
\* every line before the first version heading is dropped.
C15_KeepOnlyChanges ==
    changes # NotRun => changes = LinesAt(KeptLines, 1)

\* text before the first version heading, an ignored section after it that a
\* heading ends, and lines kept on both sides of it
C15_Witness ==
    /\ changes # NotRun
    /\ Len(changelog) = 4
    /\ FirstVersionHeading = 2
    /\ IsIgnoredHeader(3)
    /\ changelog[4].kind = "h2"
    /\ Len(changes) = 2

-----------------------------------------------------------------------------
(* Installing into a JSON config *)

\* the config existed before the install and its mcpServers is a map
ExistingWithServerMap ==
    /\ existingConfig.exists /\ existingConfig.valid
    /\ HasKey(existingConfig.json, "mcpServers")
    /\ IsObject(existingConfig.json.fields["mcpServers"])

\* file holds what the config held before, but for mcpServers["gke-mcp"],
\* whose command is the executable path
OnlyGkeMcpChanged(file) ==
    LET before == existingConfig.json.fields
        after == file.json.fields
    IN /\ file.exists /\ file.valid
       /\ DOMAIN after = DOMAIN before
       /\ \A k \in DOMAIN before \ {"mcpServers"} : after[k] = before[k]
       /\ DOMAIN after["mcpServers"].fields
              = DOMAIN before["mcpServers"].fields \cup {"gke-mcp"}
       /\ \A n \in DOMAIN before["mcpServers"].fields \ {"gke-mcp"} :
              after["mcpServers"].fields[n] = before["mcpServers"].fields[n]
       /\ after["mcpServers"].fields["gke-mcp"].fields["command"] = JStr(testExePath)

\* C16: installing into an existing config whose mcpServers is a map changes
\* only mcpServers["gke-mcp"]: every other server entry and every other
\* top-level setting has the value it had before, however often the
\* installer ran.
C16_OnlyGkeMcpChanges ==
    ExistingWithServerMap =>
        /\ installs.cursor.runs > 0 =>
              (~installs.cursor.err /\ OnlyGkeMcpChanged(cursorConfig))
        /\ installs.claude.runs > 0 =>
              (~installs.claude.err /\ OnlyGkeMcpChanged(claudeConfig))

-----------------------------------------------------------------------------
(* ClaudeCodeExtension *)

\* the user answered something other than "yes" (trimmed, case-insensitive)
Declined == stdin.text \notin {"yes", "YES", "Yes"}
\* CLAUDE.md can be examined
ClaudeMDReadable == claudeMD.stat # "error"
NothingInstalled ==
    /\ claudeMD \in {NoText, ExistingText}
    /\ usageGuideMD.content # <<GeminiMarkdown>>
    /\ claudeCommand.runs = <<>>

\* C17: when the user answers the prompt with anything other than "yes", the
\* call returns without error, CLAUDE.md and GKE_MCP_USAGE_GUIDE.md are
\* neither created nor modified and 'claude mcp add' is not run.
C17_DeclineChangesNothing ==
    (claudeCodeResult # NotRun /\ ClaudeMDReadable /\ Declined) =>
        (claudeCodeResult = "nil" /\ NothingInstalled)

-----------------------------------------------------------------------------
(* LogQueryRequest.validate *)

Validated == errMsg # NotRun
Rejected == errMsg # ""
SinceSet == req.Since # ""
TimeRangeSet == req.TimeRange # "nil"
FormatSet == req.Format # ""

\* C18: validate rejects a request exactly when project_id is empty, limit is
\* above 100, since is set but is no parsable duration, since and time_range
\* are both set, or format is set but is no parsable template; a request
\* with a project_id and no since, time_range or format is accepted.
C18_ValidateRejects ==
    Validated =>
        (Rejected <=>
            \/ req.ProjectID = ""
            \/ req.Limit > 100
            \/ SinceSet /\ ParseDurationFails(req.Since)
            \/ SinceSet /\ TimeRangeSet
            \/ FormatSet /\ TemplateParseFails(req.Format))

-----------------------------------------------------------------------------
(* The two expansion steps, edge by edge *)

\* token q of the text s is a date expression alone on its line: only blanks
\* lie between it and the line breaks (or the ends of s) around it
DateLineAt(s, q) ==
    /\ s[q].kind = "H"
    /\ \A p \in 1..(q - 1) : (\A x \in p..(q - 1) : s[x].kind # "N") => s[p].kind = "S"
    /\ \A r \in (q + 1)..Len(s) : (\A x \in (q + 1)..r : s[x].kind # "N") => s[r].kind = "S"

DateLines(s) == {q \in 1..Len(s) : DateLineAt(s, q)}

\* the offsets at which the heading of date line q of s may be said to start:
\* from the start of the white space before the date up to the date itself
DateLineStarts(s, q) ==
    LET p0 == CHOOSE p \in 1..q : /\ \A x \in p..(q - 1) : IsSpace(s[x])
                                  /\ p = 1 \/ ~IsSpace(s[p - 1])
    IN Off(s, p0)..Off(s, q)

\* the text after the pre-expansion right edge, the text before the left one
RightCut ==
    SubSeq(fullReleaseNotes, IndexAt(fullReleaseNotes, outcome.rightBorder),
           Len(fullReleaseNotes))
LeftCut == SubSeq(fullReleaseNotes, 1, IndexAt(fullReleaseNotes, outcome.leftBorder) - 1)

\* C21 (right expansion): when the text after the pre-expansion right edge
\* has a date heading, the returned text ends exactly where the first such
\* heading starts; when it has none, it ends at the end of the document.
C21_RightExpansion ==
    Returned =>
        LET lines == DateLines(RightCut)
        IN IF lines = {} THEN outcome.to = TextLen(fullReleaseNotes)
           ELSE LET q == CHOOSE x \in lines : \A y \in lines : x <= y
                IN outcome.to - outcome.rightBorder \in DateLineStarts(RightCut, q)

\* C22 (left expansion): when the text before the pre-expansion left edge has
\* a date heading, the returned text starts exactly where the last such
\* heading starts; when it has none (as when that edge is 0), it starts at 0.
C22_LeftExpansion ==
    Returned =>
        LET lines == DateLines(LeftCut)
        IN IF lines = {} THEN outcome.from = 0
           ELSE LET q == CHOOSE x \in lines : \A y \in lines : x >= y
                IN outcome.from \in DateLineStarts(LeftCut, q)

\* C23: a marker of the document that fails to parse takes no part in the
\* boundary computation: each pre-expansion edge is its default (0 on the
\* left, the length of the document on the right), or the start (left) or
\* the end (right) of a marker that parses.
C23_UnparsableExcluded ==
    (Done /\ WellFormedArgs) =>
        LET v == MarkerView
        IN /\ \/ outcome.leftBorder = 0
              \/ \E k \in 1..Count(v) :
                    MarkerParses(v, k) /\ outcome.leftBorder = v.loc[k][1]
           /\ \/ outcome.rightBorder = v.len
              \/ \E k \in 1..Count(v) :
                    MarkerParses(v, k) /\ outcome.rightBorder = v.loc[k][2]

-----------------------------------------------------------------------------
(* parseGkeVersion *)

\* the version string parsed, and the one it was compared with
ParsedString == parseArgs[1]
OtherString == parseArgs[2]

IsNonNegativeInteger(f) == f.kind = "int" /\ f.val >= 0
AllFields(version) ==
    UNION {{version[i][j] : j \in 1..Len(version[i])} : i \in 1..Len(version)}

\* C24: every version that parseGkeVersion returns without error is four
\* non-negative integers; a string with a component that is no non-negative
\* integer (a signed one, say) is rejected.
C24_NonNegative ==
    (parseOutcome.ran /\ ~parseOutcome.parsed.err) =>
        /\ \A i \in 1..4 : parseOutcome.parsed.v[i] >= 0
        /\ \A f \in AllFields(ParsedString) : IsNonNegativeInteger(f)

\* "-gke." occurs exactly once; the text before it has exactly three fields
OneSeparator(version) == Len(version) = 2
ThreeComponents(version) == Len(version[1]) = 3
NoResult == [err |-> TRUE, cmp |-> 0]

\* C25: parseGkeVersion fails on a string in which "-gke." does not occur
\* exactly once, and on one whose text before "-gke." has not exactly three
\* fields; compareVersions then returns an error and the result 0, whether
\* the string is its first argument or its second.
C25_SeparatorAndComponents ==
    (parseOutcome.ran /\ ~(OneSeparator(ParsedString) /\ ThreeComponents(ParsedString))) =>
        /\ parseOutcome.parsed.err
        /\ parseOutcome.ab = NoResult
        /\ parseOutcome.ba = NoResult

\* "1.1.1-gke.1-gke.1", compared with a version that parses: rejected
C25_Witness ==
    /\ parseOutcome.ran
    /\ Len(ParsedString) = 3
    /\ ThreeComponents(ParsedString)
    /\ AllFields(ParsedString) = {Num(1)}
    /\ Parses(OtherString)
    /\ parseOutcome.parsed.err
    /\ parseOutcome.ba = NoResult

-----------------------------------------------------------------------------
(* Two calls on documents that agree up to a scan's stop *)

\* how far the pre-expansion right edge lies from the end of the document
FromEnd(doc, out) == TextLen(doc) - out.rightBorder

\* C26: a scan commits at its first stop.  Replacing the text after the
\* marker at which the left scan stops leaves the pre-expansion left edge
\* where it was; replacing the text before the marker at which the right
\* scan stops leaves the pre-expansion right edge where it was, counted from
\* the end of the document.
C26_ScanCommits ==
    /\ secondCall.side = "left" => secondCall.outcome.leftBorder = outcome.leftBorder
    /\ secondCall.side = "right" =>
          FromEnd(secondCall.fullReleaseNotes, secondCall.outcome)
              = FromEnd(fullReleaseNotes, outcome)

\* the right scan stopped at a marker other than the first, and the second
\* document has a marker before it that is not older than source either
C26_Witness ==
    /\ secondCall.side = "right"
    /\ WellFormedArgs
    /\ RightStop(fullReleaseNotes, sourceVersion) > 2
    /\ FromEnd(fullReleaseNotes, outcome) > 1
    /\ RightStop(secondCall.fullReleaseNotes, sourceVersion) > 2
    /\ \E i \in 1..(RightStop(secondCall.fullReleaseNotes, sourceVersion) - 1) :
          /\ IsMarker(secondCall.fullReleaseNotes[i])
          /\ Parses(secondCall.fullReleaseNotes[i].text)
          /\ TupleLeq(Parsed(sourceVersion), Parsed(secondCall.fullReleaseNotes[i].text))

-----------------------------------------------------------------------------
(* The window before and after expansion *)

\* C27: expansion moves the edges outward only: the returned text is
\* fullReleaseNotes[L:R] with 0 <= L <= leftBorder and
\* rightBorder <= R <= len(fullReleaseNotes).
C27_Outward ==
    Returned =>
        /\ 0 <= outcome.from
        /\ outcome.from <= outcome.leftBorder
        /\ outcome.rightBorder <= outcome.to
        /\ outcome.to <= TextLen(fullReleaseNotes)

\* both edges moved, each to a heading inside the document
C27_Witness ==
    /\ Returned
    /\ 0 < outcome.from
    /\ outcome.from < outcome.leftBorder
    /\ outcome.rightBorder < outcome.to
    /\ outcome.to < TextLen(fullReleaseNotes)

-----------------------------------------------------------------------------
(* The headings that the two expansion steps find *)

\* the offsets, in s, of the date expressions inside the matches of
\* releaseDateHeadingRegexp in s
HeadingDates(s) ==
    LET found == FindAllHeadings(s)
    IN {Off(s, q) : q \in {x \in 1..Len(s) :
                             /\ s[x].kind = "H"
                             /\ \E h \in 1..Len(found) :
                                   found[h][1] <= Off(s, x) /\ Off(s, x) < found[h][2]}}

\* the offsets of the dates of the stand-alone date lines of the document
DocumentDateLines == {Off(fullReleaseNotes, q) : q \in DateLines(fullReleaseNotes)}

\* C28: the headings that expansion finds before the left edge and after the
\* right edge are exactly the stand-alone date lines of the whole document
\* that lie there.
C28_HeadingsAreDateLines ==
    Returned =>
        /\ HeadingDates(LeftCut) = {d \in DocumentDateLines : d < outcome.leftBorder}
        /\ {outcome.rightBorder + d : d \in HeadingDates(RightCut)}
              = {d \in DocumentDateLines : d >= outcome.rightBorder}

-----------------------------------------------------------------------------
(* Documents in which every marker parses *)

AllMarkersParse(v) == \A k \in 1..Count(v) : MarkerParses(v, k)

\* markers k and k+1 stand in rising order of version somewhere
SomeRise(v) == \E k \in 1..(Count(v) - 1) : TupleLess(v.ver[k].v, v.ver[k + 1].v)

\* C29: with well-formed versions, source <= target, and a document in which
\* every marker parses, whatever the order of the versions, the left border
\* is not beyond the right border and the call returns.
C29_NoCrossing ==
    (/\ Done
     /\ SourceNotNewer
     /\ \A i \in 1..Len(fullReleaseNotes) :
           IsMarker(fullReleaseNotes[i]) => Parses(fullReleaseNotes[i].text)) =>
        (Returned /\ outcome.leftBorder <= outcome.rightBorder)

\* three markers or more, not in falling order, and both scans stop inside
\* the list
C29_Witness ==
    /\ Returned
    /\ SourceNotNewer
    /\ LET v == MarkerView
       IN /\ Count(v) >= 3
          /\ AllMarkersParse(v)
          /\ SomeRise(v)
          /\ outcome.leftBorder > 0
          /\ outcome.rightBorder < v.len

\* every marker of the document parses, and their versions never rise
OrderedDocument ==
    LET toks == SelectSeq(fullReleaseNotes, IsMarker)
    IN /\ \A k \in 1..Len(toks) : Parses(toks[k].text)
       /\ \A k \in 1..(Len(toks) - 1) :
             TupleLeq(Parsed(toks[k + 1].text), Parsed(toks[k].text))

\* marker k lies inside the pre-expansion window
InWindow(v, k) ==
    outcome.leftBorder <= v.loc[k][1] /\ v.loc[k][2] <= outcome.rightBorder

NewerInWindow(v) == {k \in 1..Count(v) : InWindow(v, k) /\ Newer(v, k, v.target)}
OlderInWindow(v) == {k \in 1..Count(v) : InWindow(v, k) /\ Older(v, k, v.source)}

\* C30: on a document whose markers all parse and stand in non-increasing
\* order of version, with source <= target, a marker <= target and a marker
\* >= source, the pre-expansion window holds at most one marker strictly
\* newer than target and at most one strictly older than source.
C30_BoundedOverInclusion ==
    (Done /\ SourceNotNewer /\ OrderedDocument) =>
        LET v == MarkerView
        IN (/\ \E k \in 1..Count(v) : AtMost(v, k, v.target)
            /\ \E k \in 1..Count(v) : AtLeast(v, k, v.source)) =>
              /\ Cardinality(NewerInWindow(v)) <= 1
              /\ Cardinality(OlderInWindow(v)) <= 1

\* two markers newer than target and two older than source in the document,
\* one of each in the window
C30_Witness ==
    /\ Returned
    /\ SourceNotNewer
    /\ LET v == MarkerView
       IN /\ OrderedDocument
          /\ Cardinality({k \in 1..Count(v) : Newer(v, k, v.target)}) >= 2
          /\ Cardinality({k \in 1..Count(v) : Older(v, k, v.source)}) >= 2
          /\ Cardinality(NewerInWindow(v)) = 1
          /\ Cardinality(OlderInWindow(v)) = 1

====
